---- MODULE Spec2Model ----
(***************************************************************************)
(* Model of the reactor antineutrino IBD nodes:                            *)
(*   - the energy-transform kernels _enu (reactornueosc and                *)
(*     dgf_reactoranueosc), the Jacobian kernel _jacobian_dEnu_dEe and the *)
(*     oscillation kernel _osc_prob, each run as the loop of its compute   *)
(*     call, one iteration per step;                                       *)
(*   - the composite node IBDXsecVBO1Group: its construction (port         *)
(*     merging, positional inputs), the connection of producers to its     *)
(*     parent-level inputs and the evaluation of its members.              *)
(*                                                                         *)
(* Numbers.  A float64 is modelled as an exact rational <<n, d>> in lowest *)
(* terms (d > 0), or NaN.  +, -, *, / are exact; sqrt is rounded down to a *)
(* multiple of 1/(d*SqrtPrec) and is exact on squares of rationals; sqrt   *)
(* of a negative number is NaN (numpy.sqrt); NaN propagates through        *)
(* arithmetic and every comparison with NaN is false.  The kernels are     *)
(* compiled with numba.njit and no error_model, i.e. numba's default       *)
(* 'python' error model: a float division by zero raises                   *)
(* ZeroDivisionError and ends the call at that element.                    *)
(***************************************************************************)
EXTENDS Integers, Sequences, FiniteSets, TLC

\* ------------------------------------------------------------------ bounds
MaxLen == 2      \* length of the energy vector of a compute call
MaxE == 3        \* energies are 0..MaxE
MaxMass == 2     \* masses: electron -MaxMass..MaxMass-1, proton 0..MaxMass
MaxL == 1        \* baselines are 0..MaxL
MaxDm == 1       \* mass-squared splittings are 0..MaxDm
MaxCalls == 2    \* compute calls of a node on the same inputs
MaxVal == 2      \* a mass parameter of the group takes the values 1..MaxVal
SqrtPrec == 4    \* sqrt is rounded down to a multiple of 1/(d*SqrtPrec)
SinPrec == 4     \* sin is rounded away from 0 to a multiple of 1/SinPrec

\* ------------------------------------------------------------ float64 model
NaN == <<0, 0>>
Unset == <<0, -1>>         \* no value: an element not stored, a local not assigned,
                           \* an input the node does not have

IsNaN(a) == a = NaN
IsFinite(a) == a[2] > 0

Abs(n) == IF n < 0 THEN -n ELSE n

RECURSIVE GCD(_, _)
GCD(a, b) == IF b = 0 THEN a ELSE GCD(b, a % b)

\* n/d in lowest terms with a positive denominator (d # 0)
Norm(n, d) ==
    LET g == GCD(Abs(n), Abs(d))
        s == IF d < 0 THEN -1 ELSE 1
    IN <<(s * n) \div g, (s * d) \div g>>

R(n) == <<n, 1>>
Zero == R(0)
One == R(1)
Half == <<1, 2>>

RNeg(a) == IF IsNaN(a) THEN NaN ELSE <<-a[1], a[2]>>

RAdd(a, b) ==
    IF IsNaN(a) \/ IsNaN(b) THEN NaN
    ELSE LET g == GCD(a[2], b[2])
         IN Norm(a[1] * (b[2] \div g) + b[1] * (a[2] \div g), (a[2] \div g) * b[2])

RSub(a, b) == RAdd(a, RNeg(b))

RMul(a, b) ==
    IF IsNaN(a) \/ IsNaN(b) THEN NaN
    ELSE LET g1 == GCD(Abs(a[1]), b[2])
             g2 == GCD(Abs(b[1]), a[2])
         IN Norm((a[1] \div g1) * (b[1] \div g2), (a[2] \div g2) * (b[2] \div g1))

\* a / b for b # 0; the callers raise ZeroDivisionError before dividing by 0
RDiv(a, b) ==
    IF IsNaN(a) \/ IsNaN(b) THEN NaN
    ELSE RMul(a, Norm(b[2], b[1]))

IsZero(a) == a = Zero

\* a < b and a <= b: false when either side is NaN
RLt(a, b) == IsFinite(a) /\ IsFinite(b) /\ a[1] * b[2] < b[1] * a[2]
RLe(a, b) == IsFinite(a) /\ IsFinite(b) /\ a[1] * b[2] <= b[1] * a[2]

RECURSIVE ISqrtBetween(_, _, _)
ISqrtBetween(n, lo, hi) ==
    IF lo = hi THEN lo
    ELSE LET mid == (lo + hi + 1) \div 2
         IN IF mid * mid <= n THEN ISqrtBetween(n, mid, hi)
                              ELSE ISqrtBetween(n, lo, mid - 1)

\* floor of the square root of n >= 0
ISqrt(n) == ISqrtBetween(n, 0, IF n < 46340 THEN n ELSE 46340)

\* numpy.sqrt: NaN below 0, exact on squares, else rounded down
RSqrt(a) ==
    IF IsNaN(a) \/ a[1] < 0 THEN NaN
    ELSE Norm(ISqrt(a[1] * a[2] * SqrtPrec * SqrtPrec), a[2] * SqrtPrec)

\* numpy.power(x, 2)
Pow2(a) == RMul(a, a)

\* ------------------------------------------------------------------- inputs
Energies == 0..MaxE
Cosines == <<-1, 0, 1>>
ElectronMasses == (-MaxMass)..(MaxMass - 1)
ProtonMasses == 0..MaxMass
EnuValues == {-1, 1, 2}
Baselines == 0..MaxL
MassSplittings == 0..MaxDm
MixingValues == {<<3, 4>>, R(2)}
MassOrderings == {-1, 1}

\* numpy.linspace(e0, e0 + MaxLen - 1, MaxLen)
Linspace(e0) == [k \in 1..MaxLen |-> e0 + k - 1]

\* numpy.meshgrid(e1, ctheta1, indexing='ij') raveled: element k of the
\* energy array and of the cosine array
MeshLen(e1) == Len(e1) * Len(Cosines)
MeshE(e1) == [k \in 1..MeshLen(e1) |-> R(e1[((k - 1) \div Len(Cosines)) + 1])]
MeshCos(e1) == [k \in 1..MeshLen(e1) |-> R(Cosines[((k - 1) % Len(Cosines)) + 1])]

VARIABLES
    node,            \* the node whose compute call is modelled
    use_edep,        \* EeToEnu / Jacobian_dEnu_dEe: the deposited-energy flag
    distance_unit,   \* NueSurvivalProbability: the argument of the constructor
    baseline_scale,  \* NueSurvivalProbability: the unit factor of the baseline
    inp,             \* the data of the node's inputs (Unset: no such input)
    out,             \* the data of the node's output 'result'
    pc,              \* "new" (not constructed), "failed" (the constructor
                     \* raised), "ready", "loop", "returned" or "raised" (the
                     \* compute call raised)
    i,               \* loop index (1-based)
    loc,             \* the locals of the iteration executed last
    calls,           \* the number of the compute call, from 1 (0: none modelled)
    inputs_kw,       \* IBDXsecVBO1Group: the keyword inputs of the group, in the
                     \* order added: <<name, the member inputs registered under it>>
    inputs_pos,      \* IBDXsecVBO1Group: the names of the positional inputs
    edges,           \* the source connected to each member input
    data,            \* the value of each mass parameter (a producer's output)
    seen,            \* the masses each member read at its last evaluation
                     \* (<<>>: not evaluated since an input changed)
    inputs_dd,       \* type propagation: [shape, dtype] of each positional input
    result_dd        \* type propagation: [shape, dtype] of the output 'result'

kvars == <<node, use_edep, distance_unit, baseline_scale, inp, out, pc, i, loc, calls>>
gvars == <<inputs_kw, inputs_pos, edges, data, seen>>
tvars == <<inputs_dd, result_dd>>
vars == <<kvars, gvars, tvars>>

NoLocals ==
    [Ee |-> Unset, sub |-> FALSE, vsq |-> Unset, Ve |-> Unset, corr |-> Unset,
     delta |-> Unset, L |-> Unset, oscprobArgConversion |-> Unset]

\* The outcome of one iteration of a kernel's loop.  raised: the iteration ended
\* in ZeroDivisionError; val: the value stored in Result[i]; the other fields
\* are the iteration's locals (sub: the sub-threshold branch was taken).
Raises(Ee, sub, vsq, Ve, corr) ==
    [raised |-> TRUE, val |-> Unset,
     Ee |-> Ee, sub |-> sub, vsq |-> vsq, Ve |-> Ve, corr |-> corr]
Stores(val, Ee, sub, vsq, Ve, corr) ==
    [raised |-> FALSE, val |-> val,
     Ee |-> Ee, sub |-> sub, vsq |-> vsq, Ve |-> Ve, corr |-> corr]

\* ---------------------------------------------------- energy-transform kernel
\* a variant of delta without the factor 0.5
_enu_delta_nohalf(ElectronMass, ProtonMass, NeutronMass) ==
    RDiv(RSub(RSub(RMul(NeutronMass, NeutronMass), RMul(ProtonMass, ProtonMass)),
              RMul(ElectronMass, ElectronMass)),
         ProtonMass)

\* delta = 0.5*(NeutronMass2-ProtonMass2-ElectronMass2)/ProtonMass, ProtonMass # 0
_enu_delta(ElectronMass, ProtonMass, NeutronMass) ==
    RDiv(RMul(Half, RSub(RSub(Pow2(NeutronMass), Pow2(ProtonMass)), Pow2(ElectronMass))),
         ProtonMass)

\* a variant of the energy adjustment that ignores the deposited-energy flag
_enu_Ee_noshift(EeIn_i, ElectronMass, useEdep) == EeIn_i

\* if use_edep: Ee-=ElectronMass
_enu_Ee(EeIn_i, ElectronMass, useEdep) ==
    IF useEdep THEN RSub(EeIn_i, ElectronMass) ELSE EeIn_i

\* a variant in which the subtraction is done in the array: EeIn[i] -= ElectronMass
_enu_EeIn_inplace(EeIn_i, ElectronMass, useEdep) ==
    IF useEdep THEN RSub(EeIn_i, ElectronMass) ELSE EeIn_i

\* EeIn[i] after an iteration: Ee is the loop's own copy of the element, and
\* Ee-=ElectronMass changes the copy
_enu_EeIn(EeIn_i, ElectronMass, useEdep) == EeIn_i

\* a variant of the threshold test that compares the energy with 0
_enu_above_zero(Ee, ElectronMass) == RLt(Zero, Ee)

\* if Ee>ElectronMass
_enu_above(Ee, ElectronMass) == RLt(ElectronMass, Ee)

\* One iteration of the loop of reactornueosc _enu.
_enu_iter(EeIn_i, ctheta, ElectronMass, ProtonMass, delta, useEdep) ==
    LET ElectronMass2 == Pow2(ElectronMass)
        Ee1 == _enu_Ee(EeIn_i, ElectronMass, useEdep)
        above == _enu_above(Ee1, ElectronMass)
        EeSq == RMul(Ee1, Ee1)
    IN  IF above /\ IsZero(EeSq)
        THEN Raises(Ee1, FALSE, Unset, Unset, Unset)
        ELSE
        LET vsq == IF above THEN RSub(One, RDiv(ElectronMass2, EeSq)) ELSE Unset
            Ve == IF above THEN RSqrt(vsq) ELSE Zero
            Ee == IF above THEN Ee1 ELSE ElectronMass
            epsilon_e == RDiv(Ee, ProtonMass)
            Ee0 == RAdd(Ee, delta)
            corr == RSub(One, RMul(epsilon_e, RSub(One, RMul(Ve, ctheta))))
        IN  IF IsZero(corr)
            THEN Raises(Ee, ~above, vsq, Ve, corr)
            ELSE Stores(RDiv(Ee0, corr), Ee, ~above, vsq, Ve, corr)

\* a variant of the dgf energy adjustment that ignores the deposited-energy flag
dgf_enu_Ee_noshift(EeIn_i, ElectronMass, useEdep) == EeIn_i

\* if use_edep: Ee -= ElectronMass
dgf_enu_Ee(EeIn_i, ElectronMass, useEdep) ==
    IF useEdep THEN RSub(EeIn_i, ElectronMass) ELSE EeIn_i

\* EeIn[i] after an iteration: Ee -= ElectronMass changes the loop's copy
dgf_enu_EeIn(EeIn_i, ElectronMass, useEdep) == EeIn_i

\* ... if Ee > ElectronMass else 0.0
dgf_enu_above(Ee, ElectronMass) == RLt(ElectronMass, Ee)

\* One iteration of the loop of dgf_reactoranueosc _enu (Ee is not clamped).
dgf_enu_iter(EeIn_i, ctheta, ElectronMass, ProtonMass, delta, useEdep) ==
    LET ElectronMass2 == RMul(ElectronMass, ElectronMass)
        Ee == dgf_enu_Ee(EeIn_i, ElectronMass, useEdep)
        above == dgf_enu_above(Ee, ElectronMass)
        EeSq == RMul(Ee, Ee)
    IN  IF above /\ IsZero(EeSq)
        THEN Raises(Ee, FALSE, Unset, Unset, Unset)
        ELSE
        LET vsq == IF above THEN RSub(One, RDiv(ElectronMass2, EeSq)) ELSE Unset
            Ve == IF above THEN RSqrt(vsq) ELSE Zero
            epsilon_e == RDiv(Ee, ProtonMass)
            Ee0 == RAdd(Ee, delta)
            corr == RSub(One, RMul(epsilon_e, RSub(One, RMul(Ve, ctheta))))
        IN  IF IsZero(corr)
            THEN Raises(Ee, ~above, vsq, Ve, corr)
            ELSE Stores(RDiv(Ee0, corr), Ee, ~above, vsq, Ve, corr)

\* ------------------------------------------------------------ Jacobian kernel
\* if use_edep: Ee-=ElectronMass
_jacobian_Ee(EeIn_i, ElectronMass, useEdep) ==
    IF useEdep THEN RSub(EeIn_i, ElectronMass) ELSE EeIn_i

\* EeIn[i] after an iteration: Ee-=ElectronMass changes the loop's copy
_jacobian_EeIn(EeIn_i, ElectronMass, useEdep) == EeIn_i

\* if Ee<=ElectronMass
_jacobian_below(Ee, ElectronMass) == RLe(Ee, ElectronMass)

\* One iteration of the loop of _jacobian_dEnu_dEe (corr: the denominator).
_jacobian_iter(Enu, EeIn_i, ctheta, ElectronMass, ProtonMass, useEdep) ==
    LET ElectronMass2 == Pow2(ElectronMass)
        Ee == _jacobian_Ee(EeIn_i, ElectronMass, useEdep)
        EeSq == RMul(Ee, Ee)
    IN  IF _jacobian_below(Ee, ElectronMass)
        THEN Stores(Zero, Ee, TRUE, Unset, Unset, Unset)
        ELSE IF IsZero(EeSq)
        THEN Raises(Ee, FALSE, Unset, Unset, Unset)
        ELSE
        LET vsq == RSub(One, RDiv(ElectronMass2, EeSq))
            Ve == RSqrt(vsq)
        IN  IF IsZero(Ve)
            THEN Raises(Ee, FALSE, vsq, Ve, Unset)
            ELSE
            LET nominator == RAdd(ProtonMass, RMul(Enu, RSub(One, RDiv(ctheta, Ve))))
                denominator == RSub(ProtonMass, RMul(Ee, RSub(One, RMul(Ve, ctheta))))
            IN  IF RLe(denominator, Zero)
                THEN Stores(Zero, Ee, FALSE, vsq, Ve, denominator)
                ELSE Stores(RDiv(nominator, denominator), Ee, FALSE, vsq, Ve, denominator)

\* -------------------------------------------------------- oscillation kernel
\* _oscprobArgConversion = pi*2e-3*value("electron volt-inverse meter relationship")
\*                       = 5067.73..., rounded to an integer
_oscprobArgConversion == 5068

TwoPi == <<44, 7>>

\* ceiling of n/d for n >= 0, d > 0
CeilDiv(n, d) == (n + d - 1) \div d

\* numpy.sin: a triangle wave of period TwoPi with sin(0) = 0 and |sin| <= 1,
\* rounded away from 0 to a multiple of 1/SinPrec
Sin(x) ==
    IF IsNaN(x) THEN NaN
    ELSE LET q == RDiv(x, TwoPi)
             t == Norm(q[1] % q[2], q[2])                   \* turns, in [0, 1)
             u == IF RLe(t, <<1, 4>>) THEN RMul(R(4), t)    \* the wave at t
                  ELSE IF RLe(t, <<3, 4>>) THEN RSub(R(2), RMul(R(4), t))
                  ELSE RSub(RMul(R(4), t), R(4))
             m == CeilDiv(Abs(u[1]) * SinPrec, u[2])
         IN Norm(IF u[1] < 0 THEN -m ELSE m, SinPrec)

\* a variant of the common phase factor without the baseline
_osc_prob_sinCommonArg_noL(oscprobArgConversion, L) ==
    RMul(oscprobArgConversion, <<1, 4>>)

\* sinCommonArg = oscprobArgConversion * L / 4.0
_osc_prob_sinCommonArg(oscprobArgConversion, L) ==
    RDiv(RMul(oscprobArgConversion, L), R(4))

\* One iteration of the loop of _osc_prob, with the values computed before it.
_osc_prob_iter(E_i, L, SinSq2Theta12, SinSq2Theta13, DeltaMSq21, DeltaMSq32, nmo, oscprobArgConversion) ==
    LET DeltaMSq32_ == RMul(nmo, DeltaMSq32)
        DeltaMSq31_ == RAdd(RMul(nmo, DeltaMSq32), DeltaMSq21)
        SinSqTheta12_ == RMul(Half, RSub(One, RSqrt(RSub(One, SinSq2Theta12))))
        CosSqTheta12_ == RSub(One, SinSqTheta12_)
        CosQuTheta13_ == Pow2(RMul(Half, RSub(One, RSqrt(RSub(One, SinSq2Theta13)))))
        sinCommonArg == _osc_prob_sinCommonArg(oscprobArgConversion, L)
    IN  IF IsZero(E_i)
        THEN Raises(Unset, FALSE, Unset, Unset, Unset)
        ELSE
        LET L4E == RDiv(sinCommonArg, E_i)
        IN Stores(RSub(RSub(One,
                      RMul(SinSq2Theta13,
                           RAdd(RMul(SinSqTheta12_, Pow2(Sin(RMul(DeltaMSq32_, L4E)))),
                                RMul(CosSqTheta12_, Pow2(Sin(RMul(DeltaMSq31_, L4E))))))),
                      RMul(RMul(SinSq2Theta12, CosQuTheta13_),
                           Pow2(Sin(RMul(DeltaMSq21, L4E))))),
                  Unset, FALSE, Unset, Unset, Unset)

\* a variant that hands the built-in constant to the kernel whatever the inputs
ConversionOf_builtin(inputs) == R(_oscprobArgConversion)

\* NueSurvivalProbability._fcn: the conversion constant handed to the kernel
ConversionOf(inputs) ==
    IF inputs.oscprobArgConversion # Unset
    THEN inputs.oscprobArgConversion
    ELSE R(_oscprobArgConversion)

\* a variant of the unit factor that falls back to 1 for an unknown unit
BaselineScale_fallback(unit) ==
    IF unit = "m" THEN <<1, 1000>> ELSE One

\* NueSurvivalProbability.__init__: {"km": 1, "m": 1.0e-3}[distance_unit], the
\* unit factor of the baseline; Unset stands for KeyError
BaselineScale(unit) ==
    CASE unit = "km" -> One
      [] unit = "m" -> <<1, 1000>>
      [] OTHER -> Unset

\* the values of the constructor's argument distance_unit
DistanceUnits == {"km", "m", "cm"}

\* ----------------------------------------------------------------- behaviour
NoInputs ==
    [EeIn |-> <<>>, CosThetaIn |-> <<>>, EnuIn |-> <<>>,
     ElectronMass |-> Unset, ProtonMass |-> Unset, NeutronMass |-> Unset,
     L |-> Unset, SinSq2Theta12 |-> Unset, SinSq2Theta13 |-> Unset,
     DeltaMSq21 |-> Unset, DeltaMSq32 |-> Unset, nmo |-> Unset,
     oscprobArgConversion |-> Unset]

\* EeToEnu of either package, constructed and connected: the energy and cosine
\* inputs carry a raveled mesh, the three masses one value each
InitEeToEnu ==
    /\ node \in {"EeToEnu", "dgf_EeToEnu"}
    /\ use_edep \in BOOLEAN
    /\ distance_unit = "none"
    /\ baseline_scale = Unset
    /\ pc = "ready"
    /\ \E e0 \in Energies, me \in ElectronMasses, mp \in ProtonMasses, dn \in 0..1 :
          inp = [NoInputs EXCEPT !.EeIn = MeshE(Linspace(e0)),
                                 !.CosThetaIn = MeshCos(Linspace(e0)),
                                 !.ElectronMass = R(me), !.ProtonMass = R(mp),
                                 !.NeutronMass = R(mp + dn)]

\* Jacobian_dEnu_dEe, constructed and connected
InitJacobian ==
    /\ node = "Jacobian_dEnu_dEe"
    /\ use_edep \in BOOLEAN
    /\ distance_unit = "none"
    /\ baseline_scale = Unset
    /\ pc = "ready"
    /\ \E e0 \in Energies, me \in ElectronMasses, mp \in ProtonMasses, enu \in EnuValues :
          inp = [NoInputs EXCEPT !.EeIn = MeshE(Linspace(e0)),
                                 !.CosThetaIn = MeshCos(Linspace(e0)),
                                 !.EnuIn = [k \in 1..MeshLen(Linspace(e0)) |-> R(enu)],
                                 !.ElectronMass = R(me), !.ProtonMass = R(mp)]

\* NueSurvivalProbability about to be constructed with the argument
\* distance_unit; the data are those its inputs carry once it is connected,
\* with or without the optional input 'oscprobArgConversion'
InitNueSurvivalProbability ==
    /\ node = "NueSurvivalProbability"
    /\ use_edep = FALSE
    /\ distance_unit \in DistanceUnits
    /\ baseline_scale = Unset
    /\ pc = "new"
    /\ \E e0 \in Baselines, l \in Baselines, s12 \in MixingValues, s13 \in MixingValues,
          d21 \in MassSplittings, d32 \in MassSplittings, a \in MassOrderings,
          conv \in {Unset, R(8)} :
          inp = [NoInputs EXCEPT !.EeIn = [k \in 1..MaxLen |-> R(Linspace(e0)[k])],
                                 !.L = R(l),
                                 !.SinSq2Theta12 = s12, !.SinSq2Theta13 = s13,
                                 !.DeltaMSq21 = R(d21), !.DeltaMSq32 = R(d32),
                                 !.nmo = R(a), !.oscprobArgConversion = conv]

\* no type propagation is modelled
NoTypes ==
    /\ inputs_dd = <<>>
    /\ result_dd = <<>>

\* no group is modelled
NoGroup ==
    /\ inputs_kw = <<>>
    /\ inputs_pos = <<>>
    /\ edges = <<>>
    /\ data = <<>>
    /\ seen = <<>>

Init ==
    /\ InitEeToEnu \/ InitJacobian \/ InitNueSurvivalProbability
    /\ out = [k \in 1..Len(inp.EeIn) |-> Unset]
    /\ i = 0
    /\ calls = 1
    /\ loc = NoLocals
    /\ NoGroup
    /\ NoTypes

\* NueSurvivalProbability.__init__: the unit factor is looked up; an unknown
\* distance unit raises RuntimeError and there is no node
NueSurvivalProbability_init ==
    /\ pc = "new"
    /\ node = "NueSurvivalProbability"
    /\ IF BaselineScale(distance_unit) = Unset
       THEN /\ pc' = "failed"
            /\ baseline_scale' = baseline_scale
       ELSE /\ pc' = "ready"
            /\ baseline_scale' = BaselineScale(distance_unit)
    /\ UNCHANGED <<node, use_edep, distance_unit, inp, out, i, loc, calls, gvars, tvars>>

\* EeToEnu._fcn up to the loop of _enu: the masses' squares and delta
EeToEnu_fcn ==
    /\ pc = "ready"
    /\ node \in {"EeToEnu", "dgf_EeToEnu"}
    /\ IF IsZero(inp.ProtonMass)
       THEN /\ pc' = "raised"
            /\ loc' = NoLocals
            /\ i' = i
       ELSE /\ pc' = "loop"
            /\ loc' = [NoLocals EXCEPT !.delta =
                          _enu_delta(inp.ElectronMass, inp.ProtonMass, inp.NeutronMass)]
            /\ i' = 1
    /\ UNCHANGED <<node, use_edep, distance_unit, baseline_scale, inp, out, calls, gvars, tvars>>

\* Jacobian_dEnu_dEe._fcn up to the loop of _jacobian_dEnu_dEe
Jacobian_fcn ==
    /\ pc = "ready"
    /\ node = "Jacobian_dEnu_dEe"
    /\ pc' = "loop"
    /\ loc' = NoLocals
    /\ i' = 1
    /\ UNCHANGED <<node, use_edep, distance_unit, baseline_scale, inp, out, calls, gvars, tvars>>

\* NueSurvivalProbability._fcn up to the loop of _osc_prob: the arguments
\* L * self._baseline_scale and oscprobArgConversion of the kernel
NueSurvivalProbability_fcn ==
    /\ pc = "ready"
    /\ node = "NueSurvivalProbability"
    /\ pc' = "loop"
    /\ loc' = [NoLocals EXCEPT !.L = RMul(inp.L, baseline_scale),
                               !.oscprobArgConversion = ConversionOf(inp)]
    /\ i' = 1
    /\ UNCHANGED <<node, use_edep, distance_unit, baseline_scale, inp, out, calls, gvars, tvars>>

\* the result of iteration i of the running kernel
Iteration ==
    CASE node = "EeToEnu" ->
            _enu_iter(inp.EeIn[i], inp.CosThetaIn[i], inp.ElectronMass,
                      inp.ProtonMass, loc.delta, use_edep)
      [] node = "dgf_EeToEnu" ->
            dgf_enu_iter(inp.EeIn[i], inp.CosThetaIn[i], inp.ElectronMass,
                         inp.ProtonMass, loc.delta, use_edep)
      [] node = "Jacobian_dEnu_dEe" ->
            _jacobian_iter(inp.EnuIn[i], inp.EeIn[i], inp.CosThetaIn[i],
                           inp.ElectronMass, inp.ProtonMass, use_edep)
      [] node = "NueSurvivalProbability" ->
            _osc_prob_iter(inp.EeIn[i], loc.L,
                           inp.SinSq2Theta12, inp.SinSq2Theta13,
                           inp.DeltaMSq21, inp.DeltaMSq32, inp.nmo,
                           loc.oscprobArgConversion)

\* EeIn[i] after iteration i of the running kernel
ElementAfter ==
    CASE node = "EeToEnu" -> _enu_EeIn(inp.EeIn[i], inp.ElectronMass, use_edep)
      [] node = "dgf_EeToEnu" -> dgf_enu_EeIn(inp.EeIn[i], inp.ElectronMass, use_edep)
      [] node = "Jacobian_dEnu_dEe" ->
            _jacobian_EeIn(inp.EeIn[i], inp.ElectronMass, use_edep)
      [] node = "NueSurvivalProbability" -> inp.EeIn[i]

\* one iteration of the kernel's loop: store Result[i], or raise
LoopIter ==
    /\ pc = "loop"
    /\ inp' = [inp EXCEPT !.EeIn[i] = ElementAfter]
    /\ LET r == Iteration
       IN /\ loc' = [Ee |-> r.Ee, sub |-> r.sub, vsq |-> r.vsq, Ve |-> r.Ve,
                     corr |-> r.corr, delta |-> loc.delta, L |-> loc.L,
                     oscprobArgConversion |-> loc.oscprobArgConversion]
          /\ IF r.raised
             THEN /\ pc' = "raised"
                  /\ UNCHANGED <<out, i>>
             ELSE /\ out' = [out EXCEPT ![i] = r.val]
                  /\ i' = i + 1
                  /\ pc' = IF i = Len(inp.EeIn) THEN "returned" ELSE "loop"
    /\ UNCHANGED <<node, use_edep, distance_unit, baseline_scale, calls, gvars, tvars>>

\* the node is evaluated again, its inputs being what they are: the output
\* array keeps the data of the call before until they are overwritten
Recompute ==
    /\ pc = "returned"
    /\ calls < MaxCalls
    /\ calls' = calls + 1
    /\ pc' = "ready"
    /\ i' = 0
    /\ loc' = NoLocals
    /\ UNCHANGED <<node, use_edep, distance_unit, baseline_scale, inp, out, gvars, tvars>>

Next ==
    \/ NueSurvivalProbability_init
    \/ EeToEnu_fcn \/ Jacobian_fcn \/ NueSurvivalProbability_fcn \/ LoopIter
    \/ Recompute

Spec == Init /\ [][Next]_vars

\* --------------------------------------------------------- IBDXsecVBO1Group
Members == <<"ibdxsec", "eetoenu", "jacobian">>

\* self._eename = use_edep and 'edep' or 'ee'
EeName(useEdep) == IF useEdep THEN "edep" ELSE "ee"

\* EeToEnu.__init__: the inputs added, in order
EeToEnu_inputs(useEdep) ==
    <<EeName(useEdep), "costheta", "ElectronMass", "ProtonMass", "NeutronMass">>

\* Jacobian_dEnu_dEe.__init__: the inputs added, in order
Jacobian_inputs(useEdep) ==
    <<"enu", EeName(useEdep), "costheta", "ElectronMass", "ProtonMass">>

\* IBDXsecVBO1: the inputs the group looks up on it
IBDXsecVBO1_inputs ==
    <<"enu", "costheta", "ElectronMass", "ProtonMass", "NeutronMass",
      "NeutronLifeTime", "PhaseSpaceFactor", "g", "f", "f2">>

MemberInputs(m, useEdep) ==
    CASE m = "ibdxsec" -> IBDXsecVBO1_inputs
      [] m = "eetoenu" -> EeToEnu_inputs(useEdep)
      [] m = "jacobian" -> Jacobian_inputs(useEdep)

Range(seq) == {seq[k] : k \in 1..Len(seq)}

\* the lists of IBDXsecVBO1Group.__init__
inputs_common == <<"ElectronMass", "ProtonMass", "NeutronMass">>
inputs_ibd == inputs_common \o <<"NeutronLifeTime", "PhaseSpaceFactor", "g", "f", "f2">>
merge_inputs(eename) == <<eename, "costheta">> \o inputs_common
kw_inputs_ibdxsec == <<"costheta">> \o inputs_ibd

\* variants of the lists: eetoenu without 'costheta', jacobian without the
\* masses, the positional inputs in the other order
kw_inputs_eetoenu_nocos(eename) == <<eename>> \o inputs_common
kw_inputs_jacobian_nomasses(eename) == <<"enu", eename, "costheta">>
positional_names_swapped(eename) == <<"costheta", eename>>

kw_inputs_eetoenu(eename) == <<eename, "costheta">> \o inputs_common
kw_inputs_jacobian(eename) ==
    <<"enu", eename, "costheta">> \o SubSeq(inputs_common, 1, Len(inputs_common) - 1)
merge_inputs_jacobian(eename) ==
    SubSeq(merge_inputs(eename), 1, Len(merge_inputs(eename)) - 1)
positional_names(eename) == <<eename, "costheta">>

KwInputs(m, eename) ==
    CASE m = "ibdxsec" -> kw_inputs_ibdxsec
      [] m = "eetoenu" -> kw_inputs_eetoenu(eename)
      [] m = "jacobian" -> kw_inputs_jacobian(eename)

MergeInputs(m, eename) ==
    CASE m = "ibdxsec" -> merge_inputs(eename)
      [] m = "eetoenu" -> merge_inputs(eename)
      [] m = "jacobian" -> merge_inputs_jacobian(eename)

\* the inputs of a MetaNode: ok is FALSE once an addition has failed
EmptyInputs == [kw |-> <<>>, pos |-> <<>>, ok |-> TRUE]

KwIndex(kw, name) ==
    IF \E k \in 1..Len(kw) : kw[k][1] = name
    THEN CHOOSE k \in 1..Len(kw) : kw[k][1] = name
    ELSE 0

\* inputs.add(input, name=name, merge=merge, positional=False): a new keyword
\* input, or with merge one more member input under a name already there
AddInput(c, port, name, merge) ==
    LET k == KwIndex(c.kw, name)
    IN  IF k = 0 THEN [c EXCEPT !.kw = Append(c.kw, <<name, <<port>>>>)]
        ELSE IF merge THEN [c EXCEPT !.kw[k] = <<name, Append(c.kw[k][2], port)>>]
        ELSE [c EXCEPT !.ok = FALSE]

\* MetaNode._add_node(node, kw_inputs=..., merge_inputs=...): every name of
\* kw_inputs must be an input of the node, and is added under its own name
RECURSIVE ImportKwInputs(_, _, _, _, _)
ImportKwInputs(c, m, memberInputs, kw_inputs, merge) ==
    IF kw_inputs = <<>> \/ ~c.ok THEN c
    ELSE LET name == Head(kw_inputs)
         IN IF name \notin Range(memberInputs) THEN [c EXCEPT !.ok = FALSE]
            ELSE ImportKwInputs(AddInput(c, <<m, name>>, name, name \in Range(merge)),
                                m, memberInputs, Tail(kw_inputs), merge)

\* inputs.make_positionals(*names): the keyword inputs named become positional
MakePositionals(c, names) ==
    IF \A k \in 1..Len(names) : KwIndex(c.kw, names[k]) # 0
    THEN [c EXCEPT !.pos = c.pos \o names]
    ELSE [c EXCEPT !.ok = FALSE]

\* the three _add_node calls and make_positionals of IBDXsecVBO1Group.__init__
RECURSIVE AddNodes(_, _, _)
AddNodes(c, k, useEdep) ==
    IF k > Len(Members) THEN c
    ELSE AddNodes(ImportKwInputs(c, Members[k], MemberInputs(Members[k], useEdep),
                                 KwInputs(Members[k], EeName(useEdep)),
                                 MergeInputs(Members[k], EeName(useEdep))),
                  k + 1, useEdep)

GroupInputs(useEdep) ==
    MakePositionals(AddNodes(EmptyInputs, 1, useEdep), positional_names(EeName(useEdep)))

AllPorts(useEdep) ==
    {<<Members[k], n>> : k \in 1..Len(Members),
                         n \in UNION {Range(MemberInputs(m, useEdep)) : m \in Range(Members)}}
        \cap UNION {{<<m, n>> : n \in Range(MemberInputs(m, useEdep))} : m \in Range(Members)}

NoSource == <<"none", "">>
MemberOutput(m) == <<"member", m>>
Producer(name) == <<"producer", name>>

\* the members are constructed, the group is not
InitGroup ==
    /\ node = "IBDXsecVBO1Group"
    /\ use_edep \in BOOLEAN
    /\ distance_unit = "none"
    /\ baseline_scale = Unset
    /\ inp = NoInputs
    /\ out = <<>>
    /\ pc = "new"
    /\ i = 0
    /\ loc = NoLocals
    /\ calls = 0
    /\ inputs_kw = <<>>
    /\ inputs_pos = <<>>
    /\ edges = [p \in AllPorts(use_edep) |-> NoSource]
    /\ data = [n \in Range(inputs_common) |-> 1]
    /\ seen = [m \in Range(Members) |-> <<>>]
    /\ NoTypes

\* IBDXsecVBO1Group.__init__: the output of eetoenu feeds the 'enu' inputs of
\* jacobian and ibdxsec, the members' inputs are added, two become positional
IBDXsecVBO1Group_init ==
    /\ node = "IBDXsecVBO1Group"
    /\ pc = "new"
    /\ LET c == GroupInputs(use_edep)
       IN /\ pc' = IF c.ok THEN "built" ELSE "raised"
          /\ inputs_kw' = c.kw
          /\ inputs_pos' = c.pos
    /\ edges' = [edges EXCEPT ![<<"jacobian", "enu">>] = MemberOutput("eetoenu"),
                              ![<<"ibdxsec", "enu">>] = MemberOutput("eetoenu")]
    /\ UNCHANGED <<node, use_edep, distance_unit, baseline_scale, inp, out, i, loc, calls, data, seen, tvars>>

\* the member inputs registered under the group's input `name`
PortsOf(name) ==
    LET k == KwIndex(inputs_kw, name)
    IN IF k = 0 THEN {} ELSE Range(inputs_kw[k][2])

\* the producer connected by name: the parameter of that name, the array 'ee'
\* to the energy input and the array 'ctheta' to 'costheta'
ProducerFor(name) ==
    IF name \in {"ee", "edep"} THEN Producer("ee")
    ELSE IF name = "costheta" THEN Producer("ctheta")
    ELSE Producer(name)

\* producer >> group.inputs[name]: the producer is connected to every member
\* input registered under the name, none of which is connected yet
CanConnect(name) ==
    /\ PortsOf(name) # {}
    /\ \A p \in PortsOf(name) : edges[p] = NoSource

Connect(e, name, producer) == [p \in PortsOf(name) |-> producer] @@ e

ConnectKeyword ==
    /\ node = "IBDXsecVBO1Group"
    /\ pc = "built"
    /\ \E k \in 1..Len(inputs_kw) :
          /\ CanConnect(inputs_kw[k][1])
          /\ edges' = Connect(edges, inputs_kw[k][1], ProducerFor(inputs_kw[k][1]))
    /\ UNCHANGED <<kvars, inputs_kw, inputs_pos, data, seen, tvars>>

\* (ee, ctheta) >> group: the producers are connected to the positional inputs
\* in their order
ConnectPositional ==
    /\ node = "IBDXsecVBO1Group"
    /\ pc = "built"
    /\ Len(inputs_pos) = 2
    /\ CanConnect(inputs_pos[1])
    /\ CanConnect(inputs_pos[2])
    /\ edges' = Connect(Connect(edges, inputs_pos[1], Producer("ee")),
                        inputs_pos[2], Producer("ctheta"))
    /\ UNCHANGED <<kvars, inputs_kw, inputs_pos, data, seen, tvars>>

\* the members that read, directly or through another member, what m computes
RECURSIVE Downstream(_, _)
Downstream(ms, n) ==
    IF n = 0 THEN ms
    ELSE Downstream(ms \cup {p[1] : p \in {q \in DOMAIN edges :
                                     \E m \in ms : edges[q] = MemberOutput(m)}}, n - 1)

\* a mass parameter connected to the group changes after a member has been
\* evaluated: every member reading it, and every member downstream of one, is
\* to be evaluated again
SetValue ==
    /\ node = "IBDXsecVBO1Group"
    /\ pc = "built"
    /\ \E name \in Range(inputs_common), v \in 1..MaxVal :
          /\ v # data[name]
          /\ \E q \in DOMAIN edges : edges[q] = Producer(name)
          /\ \E m \in DOMAIN seen : seen[m] # <<>>
          /\ data' = [data EXCEPT ![name] = v]
          /\ LET readers == {p[1] : p \in {q \in DOMAIN edges : edges[q] = Producer(name)}}
             IN seen' = [m \in DOMAIN seen |->
                            IF m \in Downstream(readers, Len(Members)) THEN <<>> ELSE seen[m]]
    /\ UNCHANGED <<kvars, inputs_kw, inputs_pos, edges, tvars>>

\* the mass inputs of member m
MassInputs(m) == Range(MemberInputs(m, use_edep)) \cap Range(inputs_common)

\* _fcn of a member: every input is connected, the members it reads from are
\* evaluated; it reads the data of the producers connected to its inputs
Evaluate ==
    /\ node = "IBDXsecVBO1Group"
    /\ pc = "built"
    /\ \E m \in Range(Members) :
          /\ seen[m] = <<>>
          /\ \A n \in Range(MemberInputs(m, use_edep)) :
                /\ edges[<<m, n>>] # NoSource
                /\ edges[<<m, n>>][1] = "member" => seen[edges[<<m, n>>][2]] # <<>>
          /\ seen' = [seen EXCEPT ![m] =
                         [n \in MassInputs(m) |->
                             IF edges[<<m, n>>][2] \in DOMAIN data
                             THEN data[edges[<<m, n>>][2]] ELSE 0]]
    /\ UNCHANGED <<kvars, inputs_kw, inputs_pos, edges, data, tvars>>

NextGroup ==
    IBDXsecVBO1Group_init \/ ConnectKeyword \/ ConnectPositional \/ SetValue \/ Evaluate

SpecGroup == InitGroup /\ [][NextGroup]_vars

\* --------------------------------------------------------- type propagation
\* the shapes and dtypes of the arrays connected to a node's positional inputs
Shapes == {<<2>>, <<1, 2>>, <<2, 1>>}
Dtypes == {"d", "i"}
DataDescriptors == [shape : Shapes, dtype : Dtypes]
NoDescriptor == [shape |-> <<>>, dtype |-> "none"]

\* the positional inputs of the node, in order
PositionalInputs(n, useEdep) ==
    IF n = "Jacobian_dEnu_dEe"
    THEN SubSeq(Jacobian_inputs(useEdep), 1, 3)
    ELSE SubSeq(EeToEnu_inputs(useEdep), 1, 2)

\* a variant that checks the first two positional inputs of every node
TypefuncChecked_two(n, useEdep) == SubSeq(PositionalInputs(n, useEdep), 1, 2)

\* the inputs named by the slice of _typefunc: slice(0, 2) in EeToEnu,
\* slice(0, 3) in Jacobian_dEnu_dEe
TypefuncChecked(n, useEdep) ==
    IF n = "Jacobian_dEnu_dEe"
    THEN SubSeq(PositionalInputs(n, useEdep), 1, 3)
    ELSE SubSeq(PositionalInputs(n, useEdep), 1, 2)

\* check_input_dimension(node, slice, ndim): every input named has ndim axes
check_input_dimension(dds, names, ndim) ==
    \A k \in 1..Len(names) : Len(dds[names[k]].shape) = ndim

\* check_inputs_equivalence(node, slice): the inputs named have the dtype and
\* the shape of the first of them
check_inputs_equivalence(dds, names) ==
    \A k \in 1..Len(names) :
        /\ dds[names[k]].dtype = dds[names[1]].dtype
        /\ dds[names[k]].shape = dds[names[1]].shape

\* copy_from_input_to_output(node, eename, 'result', edges=False, ...): the
\* dtype and the shape of the input are copied
copy_from_input_to_output(dds, name) ==
    [shape |-> dds[name].shape, dtype |-> dds[name].dtype]

\* a node of one of the three classes, connected, before type propagation
InitTypes ==
    /\ node \in {"EeToEnu", "dgf_EeToEnu", "Jacobian_dEnu_dEe"}
    /\ use_edep \in BOOLEAN
    /\ distance_unit = "none"
    /\ baseline_scale = Unset
    /\ inp = NoInputs
    /\ out = <<>>
    /\ pc = "open"
    /\ i = 0
    /\ loc = NoLocals
    /\ calls = 0
    /\ NoGroup
    /\ inputs_dd \in [Range(PositionalInputs(node, use_edep)) -> DataDescriptors]
    /\ result_dd = NoDescriptor

\* _typefunc: the two checks, then the output takes the dtype and the shape of
\* the energy input; a failed check raises and leaves the output as it is
Typefunc ==
    /\ pc = "open"
    /\ LET names == TypefuncChecked(node, use_edep)
       IN IF /\ check_input_dimension(inputs_dd, names, 2)
             /\ check_inputs_equivalence(inputs_dd, names)
          THEN /\ pc' = "typed"
               /\ result_dd' = copy_from_input_to_output(inputs_dd, EeName(use_edep))
          ELSE /\ pc' = "typeerror"
               /\ result_dd' = result_dd
    /\ UNCHANGED <<node, use_edep, distance_unit, baseline_scale, inp, out, i, loc,
                   calls, gvars, inputs_dd>>

\* the array connected to a positional input is replaced by another one: the
\* types are propagated again
Reconnect ==
    /\ pc \in {"typed", "typeerror"}
    /\ \E n \in DOMAIN inputs_dd, dd \in DataDescriptors :
          /\ dd # inputs_dd[n]
          /\ inputs_dd' = [inputs_dd EXCEPT ![n] = dd]
    /\ pc' = "open"
    /\ UNCHANGED <<node, use_edep, distance_unit, baseline_scale, inp, out, i, loc,
                   calls, gvars, result_dd>>

NextTypes == Typefunc \/ Reconnect

SpecTypes == InitTypes /\ [][NextTypes]_vars

\* ==================================================================== claims
EnuNodes == {"EeToEnu", "dgf_EeToEnu"}

\* an iteration of the loop has been executed, and its element
IterDone == (pc \in {"loop", "returned"} /\ i >= 2) \/ (pc = "raised" /\ i >= 1)
LastK == IF pc = "raised" THEN i ELSE i - 1

\* the kinetic energy of element k: the input energy, minus the electron mass
\* when the deposited-energy flag is set
Kinetic(k) ==
    IF use_edep THEN RSub(inp.EeIn[k], inp.ElectronMass) ELSE inp.EeIn[k]

\* 1 - m_e^2/E^2 for E # 0
VelocitySquared(E) ==
    RSub(One, RDiv(RMul(inp.ElectronMass, inp.ElectronMass), RMul(E, E)))

\* ---- C1
\* what C1 says the Jacobian kernel stores for element k: 0 at or below the
\* threshold, 0 for a denominator at or below 0, else the ratio
C1_Expected(k) ==
    LET E == Kinetic(k)
        v == RSqrt(VelocitySquared(E))
        cos == inp.CosThetaIn[k]
        den == RSub(inp.ProtonMass, RMul(E, RSub(One, RMul(v, cos))))
    IN  IF RLe(E, inp.ElectronMass) THEN Zero
        ELSE IF RLe(den, Zero) THEN Zero
        ELSE RDiv(RAdd(inp.ProtonMass, RMul(inp.EnuIn[k], RSub(One, RDiv(cos, v)))), den)

\* C1: the Jacobian kernel stores, for every element, exactly 0 when the kinetic
\* energy is at or below the electron mass, exactly 0 when the denominator
\* m_p - E*(1 - v*cos) is at or below 0, and otherwise
\* (m_p + Enu*(1 - cos/v)) / (m_p - E*(1 - v*cos)) with v = sqrt(1 - m_e^2/E^2):
\* the call does not end before an element is stored, and every element stored
\* holds that value.
C1_JacobianStoresZeroOrRatio ==
    node = "Jacobian_dEnu_dEe" =>
        /\ pc # "raised"
        /\ \A k \in 1..(i - 1) : out[k] = C1_Expected(k)

\* ---- C2
\* C2: in both energy-transform kernels, for an electron mass above 0, the
\* velocity term of the iteration executed last is exactly 0 when the kinetic
\* energy is at or below the electron mass (the sub-threshold branch), and is
\* otherwise the square root of 1 - m_e^2/E^2, which is above 0: never negative,
\* never NaN.
C2_VelocityZeroOrRealRoot ==
    (node \in EnuNodes /\ IterDone /\ RLt(Zero, inp.ElectronMass)) =>
        LET E == Kinetic(LastK)
        IN  /\ RLe(E, inp.ElectronMass) => (loc.sub /\ loc.Ve = Zero)
            /\ RLt(inp.ElectronMass, E) =>
                  /\ ~loc.sub
                  /\ loc.vsq = VelocitySquared(E)
                  /\ RLt(Zero, loc.vsq)
                  /\ loc.Ve = RSqrt(loc.vsq)
                  /\ RLt(Zero, loc.Ve)

\* C2's case: an element exactly at the threshold, E = m_e > 0, has been run
C2_Witness ==
    /\ node \in EnuNodes /\ IterDone /\ RLt(Zero, inp.ElectronMass)
    /\ Kinetic(LastK) = inp.ElectronMass
    /\ loc.Ve = Zero

\* ---- C3
\* the masses are positive with m_n > m_p > m_e
MassesOrdered ==
    /\ RLt(Zero, inp.ElectronMass)
    /\ RLt(inp.ElectronMass, inp.ProtonMass)
    /\ RLt(inp.ProtonMass, inp.NeutronMass)

\* delta = 0.5*(m_n^2 - m_p^2 - m_e^2)/m_p
C3_Delta ==
    RDiv(RMul(Half, RSub(RSub(RMul(inp.NeutronMass, inp.NeutronMass),
                              RMul(inp.ProtonMass, inp.ProtonMass)),
                         RMul(inp.ElectronMass, inp.ElectronMass))),
         inp.ProtonMass)

\* corr = 1 - (E/m_p)*(1 - v*cos) of element k, for E above the threshold
C3_Corr(k) ==
    LET E == Kinetic(k)
        v == RSqrt(VelocitySquared(E))
    IN RSub(One, RMul(RDiv(E, inp.ProtonMass), RSub(One, RMul(v, inp.CosThetaIn[k]))))

\* the element run last is above the threshold, with ordered masses
C3_Case ==
    /\ node \in EnuNodes /\ IterDone /\ MassesOrdered
    /\ RLt(inp.ElectronMass, Kinetic(LastK))

\* C3 as stated: for E > m_e and ordered positive masses, whenever corr is not
\* 0 the output (E + delta)/corr is stored, finite and above 0.
C3_PositiveWheneverCorrNonZero ==
    (C3_Case /\ C3_Corr(LastK) # Zero) =>
        /\ pc # "raised"
        /\ out[LastK] = RDiv(RAdd(Kinetic(LastK), C3_Delta), C3_Corr(LastK))
        /\ IsFinite(out[LastK])
        /\ RLt(Zero, out[LastK])

\* C3 amended: for E > m_e and ordered positive masses, whenever corr is above
\* 0 the output (E + delta)/corr is stored, finite and above 0.
C3_PositiveWheneverCorrPositive ==
    (C3_Case /\ RLt(Zero, C3_Corr(LastK))) =>
        /\ pc # "raised"
        /\ out[LastK] = RDiv(RAdd(Kinetic(LastK), C3_Delta), C3_Corr(LastK))
        /\ IsFinite(out[LastK])
        /\ RLt(Zero, out[LastK])

\* C3's case: an element above the threshold with corr above 0 has been stored
C3_Witness ==
    /\ C3_Case /\ RLt(Zero, C3_Corr(LastK))
    /\ pc # "raised" /\ RLt(Zero, out[LastK])

\* ---- C4
IsInf(a) == a[2] = 0 /\ a[1] # 0

\* C4: when corr is 0 for an element of the energy-transform kernel's input, the
\* kernel does not raise: it stores an infinite value for that element (and goes
\* on to the later elements).
C4_CorrZeroStoresInfinity ==
    (node \in EnuNodes /\ IterDone /\ loc.corr = Zero) =>
        /\ pc # "raised"
        /\ IsInf(out[LastK])

\* ---- C5
\* 1 - m_e^2/E^2 of element k is at or below 0 (for E = 0: minus infinity,
\* unless m_e is 0 too)
C5_VelocitySquaredNonPositive(k) ==
    IF IsZero(Kinetic(k)) THEN ~IsZero(inp.ElectronMass)
    ELSE RLe(VelocitySquared(Kinetic(k)), Zero)

\* C5: for every value of the electron mass, whenever 1 - m_e^2/E^2 is at or
\* below 0 the Jacobian kernel stores exactly 0 for that element.
C5_JacobianZeroForNonPositiveVelocitySquared ==
    (node = "Jacobian_dEnu_dEe" /\ IterDone /\ C5_VelocitySquaredNonPositive(LastK)) =>
        /\ pc # "raised"
        /\ out[LastK] = Zero

\* ---- C6
\* the iteration of the running kernel on element k with the flag cleared and
\* the energy E - m_e
C6_ClearedOnShifted(k) ==
    LET E == RSub(inp.EeIn[k], inp.ElectronMass)
    IN IF node = "EeToEnu"
       THEN _enu_iter(E, inp.CosThetaIn[k], inp.ElectronMass, inp.ProtonMass,
                      loc.delta, FALSE)
       ELSE _jacobian_iter(inp.EnuIn[k], E, inp.CosThetaIn[k], inp.ElectronMass,
                           inp.ProtonMass, FALSE)

\* C6: with the deposited-energy flag set, each iteration of the
\* energy-transform kernel and of the Jacobian kernel ends as the iteration
\* with the flag cleared ends on the energy E - m_e (the same value stored, or
\* both raise), and takes the sub-threshold branch exactly when E - m_e <= m_e.
C6_DepositedIsKineticShifted ==
    (node \in {"EeToEnu", "Jacobian_dEnu_dEe"} /\ use_edep /\ IterDone) =>
        LET r == C6_ClearedOnShifted(LastK)
        IN  /\ (pc = "raised") = r.raised
            /\ pc # "raised" => out[LastK] = r.val
            /\ loc.sub = RLe(RSub(inp.EeIn[LastK], inp.ElectronMass), inp.ElectronMass)

\* C6's case: in deposited mode an element with E > m_e but E - m_e <= m_e has
\* been run through the sub-threshold branch
C6_Witness ==
    /\ node \in {"EeToEnu", "Jacobian_dEnu_dEe"} /\ use_edep /\ IterDone
    /\ RLt(inp.ElectronMass, inp.EeIn[LastK])
    /\ loc.sub
    /\ pc # "raised"

\* ---- C7
\* both mass-squared splittings are 0, or the baseline is 0
C7_NoOscillation ==
    \/ inp.DeltaMSq21 = Zero /\ inp.DeltaMSq32 = Zero
    \/ inp.L = Zero

\* C7 as stated: with both splittings 0, or with the baseline 0, the survival
\* probability is stored and exactly 1 for every element of E.
C7_ProbabilityOne ==
    (node = "NueSurvivalProbability" /\ C7_NoOscillation) =>
        /\ pc # "raised"
        /\ \A k \in 1..(i - 1) : out[k] = One

\* C7 amended: with both splittings 0, or with the baseline 0, the survival
\* probability is stored and exactly 1 for every element of E, when no element
\* of E is 0 and sin^2(2 theta12) and sin^2(2 theta13) are at most 1.
C7_ProbabilityOneForNonZeroEnergies ==
    (/\ node = "NueSurvivalProbability" /\ C7_NoOscillation
     /\ \A k \in 1..Len(inp.EeIn) : inp.EeIn[k] # Zero
     /\ RLe(inp.SinSq2Theta12, One) /\ RLe(inp.SinSq2Theta13, One)) =>
        /\ pc # "raised"
        /\ \A k \in 1..(i - 1) : out[k] = One

\* C7's case: a call with a baseline of 0 and splittings that are not 0 has
\* returned with every element 1
C7_Witness ==
    /\ node = "NueSurvivalProbability" /\ pc = "returned"
    /\ inp.L = Zero /\ inp.DeltaMSq21 # Zero /\ inp.DeltaMSq32 # Zero
    /\ \A k \in 1..Len(inp.EeIn) : out[k] = One

\* ---- C8
GroupBuilt == node = "IBDXsecVBO1Group" /\ pc = "built"

\* the members that have an input named n
Readers(n) == {m \in Range(Members) : n \in Range(MemberInputs(m, use_edep))}

\* the producer of the mass n is connected to the group
MassConnected(n) == \E q \in DOMAIN edges : edges[q] = Producer(n)

\* C8 as stated: for each of ElectronMass, ProtonMass and NeutronMass, each of
\* the three members, once evaluated, has read that mass, and the value it
\* read is the value of the producer connected to the group's input.
C8_AllThreeReadEachMass ==
    GroupBuilt =>
        \A n \in Range(inputs_common) : \A m \in Range(Members) :
            seen[m] # <<>> => (n \in DOMAIN seen[m] /\ seen[m][n] = data[n])

\* C8 amended: ElectronMass and ProtonMass are inputs of all three members,
\* NeutronMass of the cross-section and of the energy transform only (the
\* Jacobian has no such input); the group's input of each name holds exactly
\* the inputs of those members, connecting a producer to it connects every one
\* of them to that producer, and each of those members, once evaluated after
\* the last change of the producer's value, has read the producer's value.
C8_MassReachesEveryMemberDeclaringIt ==
    GroupBuilt =>
        /\ Readers("ElectronMass") = Range(Members)
        /\ Readers("ProtonMass") = Range(Members)
        /\ Readers("NeutronMass") = {"ibdxsec", "eetoenu"}
        /\ \A n \in Range(inputs_common) :
              /\ PortsOf(n) = {<<m, n>> : m \in Readers(n)}
              /\ MassConnected(n) => \A m \in Readers(n) : edges[<<m, n>>] = Producer(n)
              /\ \A m \in Readers(n) : seen[m] # <<>> => seen[m][n] = data[n]

\* C8's case: the value of ElectronMass has changed since it was connected,
\* and all three members have been evaluated since and have read the new value
C8_Witness ==
    /\ GroupBuilt
    /\ data["ElectronMass"] # 1
    /\ \A m \in Range(Members) :
          seen[m] # <<>> /\ seen[m]["ElectronMass"] = data["ElectronMass"]

\* ---- C9
\* the number of inputs of the group that hold the member input p
ParentCount(p) ==
    Cardinality({k \in 1..Len(inputs_kw) : p \in Range(inputs_kw[k][2])})

InMergeList(m, n) == n \in Range(MergeInputs(m, EeName(use_edep)))

\* C9 as stated: every member input in the member's merge list is held by
\* exactly one input of the group, and every member input that is not is
\* connected to the output of another member and held by no input of the group.
C9_NonMergedInputsWiredInside ==
    GroupBuilt =>
        \A p \in DOMAIN edges :
            IF InMergeList(p[1], p[2])
            THEN ParentCount(p) = 1
            ELSE /\ edges[p][1] = "member" /\ edges[p][2] # p[1]
                 /\ ParentCount(p) = 0

\* C9 amended: every member input in the member's merge list is held by
\* exactly one input of the group, the one of its name; a member input that is
\* not in the merge list is connected to the output of another member (the
\* 'enu' inputs of the cross-section and of the Jacobian), or is held alone by
\* the group's input of its name, to be supplied from outside (NeutronLifeTime,
\* PhaseSpaceFactor, g, f and f2 of the cross-section), or both (the 'enu'
\* input of the Jacobian).
C9_NonMergedInputsWiredOrExposed ==
    GroupBuilt =>
        \A p \in DOMAIN edges :
            IF InMergeList(p[1], p[2])
            THEN ParentCount(p) = 1 /\ p \in PortsOf(p[2])
            ELSE /\ \/ edges[p] = MemberOutput("eetoenu") /\ p[2] = "enu"
                    \/ PortsOf(p[2]) = {p}
                 /\ ParentCount(p) <= 1
                 /\ (edges[p][1] # "member") =
                        (p \in {<<"ibdxsec", n>> :
                                  n \in {"NeutronLifeTime", "PhaseSpaceFactor", "g", "f", "f2"}})
                 /\ (edges[p][1] = "member" /\ ParentCount(p) = 1) = (p = <<"jacobian", "enu">>)

\* C9's case: an input of the cross-section outside the merge list has been
\* supplied from outside the group, through the group's input of its name
C9_Witness ==
    /\ GroupBuilt
    /\ ~InMergeList("ibdxsec", "NeutronLifeTime")
    /\ edges[<<"ibdxsec", "NeutronLifeTime">>] = Producer("NeutronLifeTime")

\* ---- C10
\* C10: the group has exactly two positional inputs, the energy input ('edep'
\* with the deposited-energy flag, else 'ee') and then 'costheta', although
\* 'costheta' is the first keyword input added and the energy input a later
\* one; producers connected by position reach the energy inputs and the
\* 'costheta' inputs in that order.
C10_PositionalEnergyThenCosine ==
    GroupBuilt =>
        /\ inputs_pos = <<IF use_edep THEN "edep" ELSE "ee", "costheta">>
        /\ inputs_kw[1][1] = "costheta"
        /\ KwIndex(inputs_kw, inputs_pos[1]) > 1
        /\ \A p \in DOMAIN edges :
              /\ edges[p] = Producer("ee") => p[2] = inputs_pos[1]
              /\ edges[p] = Producer("ctheta") => p[2] = "costheta"

\* C10's case: a group with the deposited-energy flag has its positional
\* inputs connected: 'edep' of the energy transform and of the Jacobian read
\* the first producer, 'costheta' of all three members the second
C10_Witness ==
    /\ GroupBuilt /\ use_edep
    /\ edges[<<"eetoenu", "edep">>] = Producer("ee")
    /\ edges[<<"jacobian", "edep">>] = Producer("ee")
    /\ \A m \in Range(Members) : edges[<<m, "costheta">>] = Producer("ctheta")

\* ---- C11
\* C11: constructing NueSurvivalProbability with a distance unit other than
\* 'km' or 'm' fails at once: there is no node, no baseline scale, and no
\* compute call ever runs; with 'km' the baseline scale is 1 and with 'm' it is
\* 1/1000, from the construction on through every compute call.
C11_DistanceUnitDecidesScale ==
    (node = "NueSurvivalProbability" /\ pc # "new") =>
        /\ distance_unit = "km" => (pc # "failed" /\ baseline_scale = One)
        /\ distance_unit = "m" => (pc # "failed" /\ baseline_scale = <<1, 1000>>)
        /\ distance_unit \notin {"km", "m"} =>
              /\ pc = "failed"
              /\ baseline_scale = Unset
              /\ \A k \in 1..Len(out) : out[k] = Unset

\* C11's case: the constructor has been called with the unit 'cm' and failed
C11_Witness ==
    /\ node = "NueSurvivalProbability"
    /\ distance_unit = "cm"
    /\ pc = "failed"

\* ---- C12
\* the conversion constant C12 says a compute call uses: the first element of
\* the input 'oscprobArgConversion' when there is one, else the built-in one
C12_Expected ==
    IF inp.oscprobArgConversion # Unset
    THEN inp.oscprobArgConversion
    ELSE R(_oscprobArgConversion)

\* C12: in a compute call of NueSurvivalProbability the conversion constant
\* handed to the kernel is the first element of the input
\* 'oscprobArgConversion' when the node has one and the built-in constant when
\* it has none, and every element stored in the call is computed with it.
C12_ConversionInputElseBuiltin ==
    (node = "NueSurvivalProbability" /\ pc \in {"loop", "returned", "raised"}) =>
        /\ loc.oscprobArgConversion = C12_Expected
        /\ \A k \in 1..(i - 1) :
              out[k] = _osc_prob_iter(inp.EeIn[k], RMul(inp.L, baseline_scale),
                                      inp.SinSq2Theta12, inp.SinSq2Theta13,
                                      inp.DeltaMSq21, inp.DeltaMSq32, inp.nmo,
                                      C12_Expected).val

\* C12's case: a call of a node with the input 'oscprobArgConversion' has
\* returned, with splittings and a baseline that are not 0
C12_Witness ==
    /\ node = "NueSurvivalProbability" /\ pc = "returned"
    /\ inp.oscprobArgConversion # Unset
    /\ inp.oscprobArgConversion # R(_oscprobArgConversion)
    /\ inp.L # Zero /\ inp.DeltaMSq21 # Zero

\* a call of a node without the input has returned
C12_WitnessBuiltin ==
    /\ node = "NueSurvivalProbability" /\ pc = "returned"
    /\ inp.oscprobArgConversion = Unset
    /\ loc.oscprobArgConversion = R(_oscprobArgConversion)

\* ---- C13
\* the inputs whose shapes C13 says must be identical: the first two
\* positional inputs of the energy-transform node, the first three of the
\* Jacobian node
C13_MustMatch ==
    IF node = "Jacobian_dEnu_dEe"
    THEN <<"enu", IF use_edep THEN "edep" ELSE "ee", "costheta">>
    ELSE <<IF use_edep THEN "edep" ELSE "ee", "costheta">>

C13_ShapesIdentical ==
    \A k \in 1..Len(C13_MustMatch) :
        inputs_dd[C13_MustMatch[k]].shape = inputs_dd[C13_MustMatch[1]].shape

\* C13: type propagation of the energy-transform node (either package) ends in
\* an error when its first two positional inputs do not have identical shape,
\* that of the Jacobian node when its first three do not; when it ends without
\* error the shape and dtype of the output are those of the energy input
\* ('edep' with the deposited-energy flag, 'ee' without).
C13_ShapeCheckThenCopy ==
    (node \in {"EeToEnu", "dgf_EeToEnu", "Jacobian_dEnu_dEe"}
     /\ pc \in {"typed", "typeerror"}) =>
        /\ ~C13_ShapesIdentical => pc = "typeerror"
        /\ pc = "typed" =>
              /\ result_dd.shape = inputs_dd[IF use_edep THEN "edep" ELSE "ee"].shape
              /\ result_dd.dtype = inputs_dd[IF use_edep THEN "edep" ELSE "ee"].dtype

\* C13's case: type propagation of a Jacobian node has failed with 'enu' and
\* the energy input of one shape and 'costheta' of another
C13_Witness ==
    /\ node = "Jacobian_dEnu_dEe" /\ pc = "typeerror"
    /\ inputs_dd["enu"].shape = inputs_dd[IF use_edep THEN "edep" ELSE "ee"].shape
    /\ inputs_dd["costheta"].shape # inputs_dd["enu"].shape

\* type propagation of an energy-transform node in deposited-energy mode has
\* passed and the output has the type of 'edep'
C13_WitnessPassed ==
    /\ node = "EeToEnu" /\ use_edep /\ pc = "typed"
    /\ result_dd = inputs_dd["edep"]

\* ---- C14
\* a step of a compute call leaves the data of every input as they are and,
\* in a call that repeats one on the same inputs, the output too
C14_Step ==
    (node \in {"EeToEnu", "dgf_EeToEnu", "Jacobian_dEnu_dEe", "NueSurvivalProbability"}
     /\ pc \in {"ready", "loop"}) =>
        /\ inp' = inp
        /\ use_edep' = use_edep
        /\ baseline_scale' = baseline_scale
        /\ Len(out') = Len(out)
        /\ \A k \in 1..Len(out) : k # i => out'[k] = out[k]
        /\ calls >= 2 => (pc' # "raised" /\ out' = out)

\* C14: a compute call of the energy-transform, Jacobian or
\* survival-probability node writes only the element of its output it is at:
\* the energy, costheta and enu arrays and the scalar parameters hold after
\* every step what they held before, also with the deposited-energy flag, and
\* a call repeated on the same inputs stores in every element the value the
\* call before stored there.
C14_OnlyOutputWritten == [][C14_Step]_vars

\* C14's case: a second call of an energy-transform node with the
\* deposited-energy flag and an electron mass that is not 0 has returned
C14_Witness ==
    /\ node = "EeToEnu" /\ use_edep /\ inp.ElectronMass # Zero
    /\ calls >= 2 /\ pc = "returned"
    /\ \A k \in 1..Len(out) : IsFinite(out[k])

\* ---- C15
\* the iteration of the energy-transform kernel of the other package on
\* element k
C15_OtherKernel(k) ==
    IF node = "EeToEnu"
    THEN dgf_enu_iter(inp.EeIn[k], inp.CosThetaIn[k], inp.ElectronMass,
                      inp.ProtonMass, loc.delta, use_edep)
    ELSE _enu_iter(inp.EeIn[k], inp.CosThetaIn[k], inp.ElectronMass,
                   inp.ProtonMass, loc.delta, use_edep)

\* C15: on an element whose kinetic energy, after the deposited-energy
\* adjustment, is above the electron mass, the energy-transform kernel of
\* reactornueosc and that of dgf_reactoranueosc end in the same way: the same
\* value is stored, or both raise.  (Their results differ only on elements at
\* or below the threshold.)
C15_KernelsAgreeAboveThreshold ==
    (node \in EnuNodes /\ IterDone /\ RLt(inp.ElectronMass, Kinetic(LastK))) =>
        LET r == C15_OtherKernel(LastK)
        IN  /\ (pc = "raised") = r.raised
            /\ pc # "raised" => out[LastK] = r.val

\* C15's case: the dgf kernel has stored an element above the threshold in
\* deposited-energy mode
C15_Witness ==
    /\ node = "dgf_EeToEnu" /\ use_edep /\ IterDone /\ pc # "raised"
    /\ RLt(Zero, inp.ElectronMass)
    /\ RLt(inp.ElectronMass, Kinetic(LastK))
    /\ IsFinite(out[LastK])

\* below the threshold the two kernels do differ: the dgf kernel has stored a
\* value for an element for which the other kernel stores another one
C15_WitnessBelow ==
    /\ node = "dgf_EeToEnu" /\ IterDone /\ pc # "raised"
    /\ RLt(Kinetic(LastK), inp.ElectronMass)
    /\ ~C15_OtherKernel(LastK).raised
    /\ C15_OtherKernel(LastK).val # out[LastK]

====
